---- MODULE Spec2Model ----
(***************************************************************************)
(* Signal Station (src/src/signal-station.ts): a pub/sub registry.         *)
(*                                                                         *)
(* Two specifications:                                                     *)
(*   Spec        the channels of the station createSignalStation('a','b')  *)
(*               under subscribe, subscribeOnce, unsubscribe and publish,  *)
(*               called by the top-level caller or from inside a running   *)
(*               subscriber callback (callbacks are arbitrary code: what a *)
(*               callback does is chosen nondeterministically);            *)
(*   SpecCreate  createSignalStation(...signalNames) on bounded name lists.*)
(***************************************************************************)
EXTENDS Integers, Sequences, FiniteSets

VARIABLES
    heap,         \* the Subscriber objects allocated so far; identity = index
    subscribers,  \* per channel: the `subscribers` array (Subscriber identities)
    stack,        \* the publish calls in progress, innermost last
    calls,        \* history: per Subscriber, how often its callback was invoked
    npub,         \* history: number of publish calls made so far
    last,         \* history: the publish call that ended in the last step
    signalNames,  \* createSignalStation: the argument list
    signals,      \* createSignalStation: own properties of the `signals` object
    ci,           \* createSignalStation: number of names the loop has consumed
    cstate,       \* createSignalStation: "running", "returned" or "threw"
    station       \* createSignalStation: own properties of the returned object

vars == <<heap, subscribers, stack, calls, npub, last,
          signalNames, signals, ci, cstate, station>>
chanVars == <<heap, subscribers, stack, calls, npub, last>>
createVars == <<signalNames, signals, ci, cstate, station>>

(***************************************************************************)
(* Bounds of the model.                                                    *)
(***************************************************************************)
\* Subscriber objects created in one run (subscribe and subscribeOnce calls).
MaxSubs == 3
\* publish calls made in one run, sequential and re-entrant together.
MaxPublish == 2
\* Channel operations one callback invocation calls before it returns or throws.
MaxCallbackOps == 1
\* Length of the name list passed to createSignalStation.
MaxNames == 3

(***************************************************************************)
(* Inputs.                                                                 *)
(***************************************************************************)
\* The channels of the station that Spec starts from.
Channels == {"a", "b"}
\* Callback functions a caller may pass to subscribe / subscribeOnce.
Callbacks == {"f"}
\* publish() passes undefined; the others are the demo's string and number.
Undefined == "undefined"
Payloads == {Undefined, "'testPayload'", "1234"}

(***************************************************************************)
(* Array.prototype methods used by the code, 0-based like the code.        *)
(***************************************************************************)
RECURSIVE IndexFrom(_, _, _)
IndexFrom(arr, x, k) ==
    IF k > Len(arr) THEN -1
    ELSE IF arr[k] = x THEN k - 1
    ELSE IndexFrom(arr, x, k + 1)

\* arr.indexOf(x): the first 0-based index holding x (by identity), or -1.
IndexOf(arr, x) == IndexFrom(arr, x, 1)

Min(a, b) == IF a < b THEN a ELSE b
Max(a, b) == IF a > b THEN a ELSE b

\* arr.splice(start, deleteCount): a negative start counts from the end.
Splice(arr, start, deleteCount) ==
    LET len == Len(arr)
        from == IF start < 0 THEN Max(len + start, 0) ELSE Min(start, len)
        cnt == Min(Max(deleteCount, 0), len - from)
    IN SubSeq(arr, 1, from) \o SubSeq(arr, from + cnt + 1, len)

\* Mutant of Push: arr.unshift(x), the new element goes to the front.
PushFront(arr, x) == <<x>> \o arr

\* arr.push(x)
Push(arr, x) == Append(arr, x)

Range(seq) == {seq[k] : k \in 1..Len(seq)}

(***************************************************************************)
(* registerSignal: the four channel operations on the `subscribers` array. *)
(***************************************************************************)
\* The Subscriber object literal of subscribe.
NewSubscriber(cb, name) ==
    [signalCallback |-> cb, signalName |-> name, singleSignalOnly |-> FALSE]

\* Mutant of unsubscribe: the Subscriber is looked up by its callback function
\* (the first Subscriber wrapping the same callback is removed).
unsubscribeByCallback(arr, subscriber) ==
    LET same == {k \in 1..Len(arr) :
                    heap[arr[k]].signalCallback = heap[subscriber].signalCallback}
        indexToDelete == IF same = {} THEN -1
                         ELSE (CHOOSE k \in same : \A m \in same : k <= m) - 1
    IN Splice(arr, indexToDelete, 1)

\* unsubscribe, on the array: indexOf, then splice(indexToDelete, 1).
unsubscribe(arr, subscriber) ==
    LET indexToDelete == IndexOf(arr, subscriber)
    IN Splice(arr, indexToDelete, 1)

NoCall == [status |-> "none"]

\* A publish call in progress.
\*   i      the array iterator's next index (0-based)
\*   cur    the Subscriber whose callback is running, 0 between callbacks
\*   ops    channel operations the running callback has called so far
\*   start  history: the array when the call began
\*   log    history: the Subscribers this call invoked, with the payload
\*   ev     history: what callbacks did to this channel during the call
NewFrame(c, payload) ==
    [chan |-> c, payload |-> payload, i |-> 0, cur |-> 0, ops |-> 0,
     start |-> subscribers[c], log |-> <<>>, ev |-> {}]

Top == stack[Len(stack)]

\* The caller's code is running: top level, or inside a subscriber callback.
CallerRuns ==
    IF stack = <<>> THEN TRUE ELSE Top.cur # 0 /\ Top.ops < MaxCallbackOps

LogIds(log) == [k \in 1..Len(log) |-> log[k][1]]

\* History: what unsubscribe(s) is to the publish call fr of the same channel.
UnsubKind(fr, s) ==
    IF IndexOf(subscribers[fr.chan], s) = -1 THEN "unsubAbsent"
    ELSE IF s = fr.cur THEN "unsubSelf"
    ELSE IF s \in Range(LogIds(fr.log)) THEN "unsubVisited"
    ELSE "unsubPending"

\* History: what the channel operation op (on Subscriber s, for unsubscribe)
\* is to the publish call fr of the same channel.
EventTag(fr, op, s) == IF op = "unsubscribe" THEN UnsubKind(fr, s) ELSE op

\* The running callback (if any) has called one more channel operation, and
\* history: the operation is noted on every publish call in progress on channel c.
Note(c, op, s) ==
    [k \in 1..Len(stack) |->
        LET fr == IF k = Len(stack) THEN [stack[k] EXCEPT !.ops = @ + 1] ELSE stack[k]
        IN IF fr.chan = c
           THEN [fr EXCEPT !.ev = @ \cup {EventTag(stack[k], op, s)}]
           ELSE fr]

\* Mutant of Subscribe: one `subscribers` array shared by all channels (declared
\* outside registerSignal), so the Subscriber lands on every channel.
SubscribeShared(c, cb) ==
    /\ CallerRuns
    /\ Len(heap) < MaxSubs
    /\ heap' = Append(heap, NewSubscriber(cb, c))
    /\ subscribers' = [d \in DOMAIN subscribers |-> Push(subscribers[d], Len(heap) + 1)]
    /\ calls' = Append(calls, 0)
    /\ stack' = Note(c, "subscribe", 0)
    /\ last' = NoCall
    /\ UNCHANGED <<npub, createVars>>

\* subscribe(signalCallback): a new Subscriber, pushed onto the array.
Subscribe(c, cb) ==
    /\ CallerRuns
    /\ Len(heap) < MaxSubs
    /\ heap' = Append(heap, NewSubscriber(cb, c))
    /\ subscribers' = [subscribers EXCEPT ![c] = Push(@, Len(heap) + 1)]
    /\ calls' = Append(calls, 0)
    /\ stack' = Note(c, "subscribe", 0)
    /\ last' = NoCall
    /\ UNCHANGED <<npub, createVars>>

\* subscribeOnce(signalCallback): subscribe, then singleSignalOnly = true.
SubscribeOnce(c, cb) ==
    /\ CallerRuns
    /\ Len(heap) < MaxSubs
    /\ heap' = Append(heap, [NewSubscriber(cb, c) EXCEPT !.singleSignalOnly = TRUE])
    /\ subscribers' = [subscribers EXCEPT ![c] = Push(@, Len(heap) + 1)]
    /\ calls' = Append(calls, 0)
    /\ stack' = Note(c, "subscribe", 0)
    /\ last' = NoCall
    /\ UNCHANGED <<npub, createVars>>

\* unsubscribe(subscriber) of channel c, with any Subscriber object ever returned
\* by any channel of the station.
Unsubscribe(c, s) ==
    /\ CallerRuns
    /\ s \in 1..Len(heap)
    /\ subscribers' = [subscribers EXCEPT ![c] = unsubscribe(@, s)]
    /\ stack' = Note(c, "unsubscribe", s)
    /\ last' = NoCall
    /\ UNCHANGED <<heap, calls, npub, createVars>>

\* publish(payload) is called: the for...of loop starts at index 0.
Publish(c, payload) ==
    /\ CallerRuns
    /\ npub < MaxPublish
    /\ stack' = Append(Note(c, "publish", 0), NewFrame(c, payload))
    /\ npub' = npub + 1
    /\ last' = NoCall
    /\ UNCHANGED <<heap, subscribers, calls, createVars>>

\* One step of the array iterator that finds an element (the array's length is
\* read now, not when the loop began), and the call of its signalCallback.
PublishNext ==
    /\ stack # <<>>
    /\ Top.cur = 0
    /\ Top.i < Len(subscribers[Top.chan])
    /\ LET subscriber == subscribers[Top.chan][Top.i + 1]
       IN /\ stack' = [stack EXCEPT ![Len(stack)] =
                          [@ EXCEPT !.i = @ + 1,
                                    !.cur = subscriber,
                                    !.ops = 0,
                                    !.log = Append(@, <<subscriber, Top.payload>>)]]
          /\ calls' = [calls EXCEPT ![subscriber] = @ + 1]
    /\ last' = NoCall
    /\ UNCHANGED <<heap, subscribers, npub, createVars>>

\* The callback returns: the rest of the loop body removes a one-shot Subscriber.
CallbackReturn ==
    /\ stack # <<>>
    /\ Top.cur # 0
    /\ subscribers' =
          IF heap[Top.cur].singleSignalOnly
          THEN [subscribers EXCEPT ![Top.chan] = unsubscribe(@, Top.cur)]
          ELSE subscribers
    /\ stack' = [stack EXCEPT ![Len(stack)] = [@ EXCEPT !.cur = 0]]
    /\ last' = NoCall
    /\ UNCHANGED <<heap, calls, npub, createVars>>

\* The array iterator is done (index >= current length): publish returns.
PublishReturn ==
    /\ stack # <<>>
    /\ Top.cur = 0
    /\ Top.i >= Len(subscribers[Top.chan])
    /\ stack' = SubSeq(stack, 1, Len(stack) - 1)
    /\ last' = [status |-> "returned", chan |-> Top.chan, payload |-> Top.payload,
                start |-> Top.start, log |-> Top.log, ev |-> Top.ev]
    /\ UNCHANGED <<heap, subscribers, calls, npub, createVars>>

\* Mutant of CallbackThrow: the one-shot removal runs in a `finally`, also when
\* the callback throws.
CallbackThrowFinally(depth) ==
    /\ stack # <<>>
    /\ Top.cur # 0
    /\ depth \in 0..(Len(stack) - 1)
    /\ subscribers' =
          IF heap[Top.cur].singleSignalOnly
          THEN [subscribers EXCEPT ![Top.chan] = unsubscribe(@, Top.cur)]
          ELSE subscribers
    /\ stack' = SubSeq(stack, 1, depth)
    /\ last' = [status |-> "threw", chan |-> Top.chan, payload |-> Top.payload,
                start |-> Top.start, log |-> Top.log, ev |-> Top.ev]
    /\ UNCHANGED <<heap, calls, npub, createVars>>

\* The running callback throws. publish has no try/catch: the exception leaves
\* every publish call it passes through; `depth` calls stay, the callback of the
\* innermost of them having caught it (0: it reaches the top-level caller).
CallbackThrow(depth) ==
    /\ stack # <<>>
    /\ Top.cur # 0
    /\ depth \in 0..(Len(stack) - 1)
    /\ stack' = SubSeq(stack, 1, depth)
    /\ last' = [status |-> "threw", chan |-> Top.chan, payload |-> Top.payload,
                start |-> Top.start, log |-> Top.log, ev |-> Top.ev]
    /\ UNCHANGED <<heap, subscribers, calls, npub, createVars>>

(***************************************************************************)
(* createSignalStation(...signalNames).                                    *)
(***************************************************************************)
\* Signal names: strings, numbers and symbols (a symbol's identity is num).
Str(s) == [kind |-> "string", num |-> 0, str |-> s]
Num(n) == [kind |-> "number", num |-> n, str |-> ""]
Sym(n, description) == [kind |-> "symbol", num |-> n, str |-> description]

Names == {Str("a"), Str("b"), Str("1"), Num(1), Str("toString"), Sym(1, "a")}

RECURSIVE ListsUpTo(_, _)
ListsUpTo(S, n) ==
    IF n = 0 THEN {<<>>}
    ELSE LET shorter == ListsUpTo(S, n - 1)
         IN shorter \cup {Append(l, x) : l \in {m \in shorter : Len(m) = n - 1}, x \in S}

Digits == <<"0", "1", "2", "3", "4", "5", "6", "7", "8", "9">>
\* Number::toString of a one-digit non-negative integer.
NumberToString(n) == Digits[n + 1]

\* The property key of signals[signalName]: a symbol is its own key, anything
\* else is converted to a string.
ToPropertyKey(name) ==
    IF name.kind = "number" THEN Str(NumberToString(name.num)) ELSE name

\* The string-keyed properties every `{}` inherits from Object.prototype.
ObjectPrototypeKeys ==
    {Str("constructor"), Str("toString"), Str("toLocaleString"), Str("valueOf"),
     Str("hasOwnProperty"), Str("isPrototypeOf"), Str("propertyIsEnumerable"),
     Str("__proto__"), Str("__defineGetter__"), Str("__defineSetter__"),
     Str("__lookupGetter__"), Str("__lookupSetter__")}

\* `signals[signalName]` as a condition: an own property (always a Signal
\* object) or an inherited one (a function or object) is truthy, a missing
\* property is undefined.
IsDefined(obj, name) ==
    LET key == ToPropertyKey(name)
    IN key \in DOMAIN obj \/ key \in ObjectPrototypeKeys

\* registerSignal(signalName): a Signal with its own, empty `subscribers`.
registerSignal(name) == [signalName |-> name, subscribers |-> <<>>]

\* signals[signalName] = value
SetProperty(obj, name, value) ==
    LET key == ToPropertyKey(name)
    IN [k \in DOMAIN obj \cup {key} |-> IF k = key THEN value ELSE obj[k]]

\* The loop body when the name is found defined: throw.
CreateThrow ==
    /\ cstate = "running"
    /\ ci < Len(signalNames)
    /\ IsDefined(signals, signalNames[ci + 1])
    /\ cstate' = "threw"
    /\ UNCHANGED <<signalNames, signals, ci, station, chanVars>>

\* The loop body otherwise: bind a new Signal to the name.
CreateRegister ==
    /\ cstate = "running"
    /\ ci < Len(signalNames)
    /\ ~IsDefined(signals, signalNames[ci + 1])
    /\ signals' = SetProperty(signals, signalNames[ci + 1],
                              registerSignal(signalNames[ci + 1]))
    /\ ci' = ci + 1
    /\ UNCHANGED <<signalNames, cstate, station, chanVars>>

\* return {...signals}: a copy of the own properties.
CreateReturn ==
    /\ cstate = "running"
    /\ ci = Len(signalNames)
    /\ station' = signals
    /\ cstate' = "returned"
    /\ UNCHANGED <<signalNames, signals, ci, chanVars>>

\* The station whose channels Spec exercises: createSignalStation('a', 'b').
StationNames == <<Str("a"), Str("b")>>
StationSignals ==
    SetProperty(SetProperty(<<>>, StationNames[1], registerSignal(StationNames[1])),
                StationNames[2], registerSignal(StationNames[2]))

InitChannels ==
    /\ heap = <<>>
    /\ subscribers = [c \in Channels |-> StationSignals[Str(c)].subscribers]
    /\ stack = <<>>
    /\ calls = <<>>
    /\ npub = 0
    /\ last = NoCall

Init ==
    /\ InitChannels
    /\ signalNames = StationNames
    /\ signals = StationSignals
    /\ ci = Len(StationNames)
    /\ cstate = "returned"
    /\ station = StationSignals

Next ==
    \/ \E c \in Channels, cb \in Callbacks : Subscribe(c, cb)
    \/ \E c \in Channels, cb \in Callbacks : SubscribeOnce(c, cb)
    \/ \E c \in Channels, s \in 1..MaxSubs : Unsubscribe(c, s)
    \/ \E c \in Channels, payload \in Payloads : Publish(c, payload)
    \/ PublishNext
    \/ CallbackReturn
    \/ PublishReturn
    \/ \E depth \in 0..MaxPublish : CallbackThrow(depth)

Spec == Init /\ [][Next]_vars

InitCreate ==
    /\ InitChannels
    /\ signalNames \in ListsUpTo(Names, MaxNames)
    /\ signals = <<>>
    /\ ci = 0
    /\ cstate = "running"
    /\ station = <<>>

NextCreate ==
    \/ CreateThrow
    \/ CreateRegister
    \/ CreateReturn

SpecCreate == InitCreate /\ [][NextCreate]_vars

(***************************************************************************)
(* Helpers of the properties.                                              *)
(***************************************************************************)
Subscriptions == 1..Len(heap)
IsOneShot(s) == heap[s].singleSignalOnly
AllRegular(seq) == \A k \in 1..Len(seq) : ~IsOneShot(seq[k])
Count(seq, x) == Cardinality({k \in 1..Len(seq) : seq[k] = x})
Without(seq, x) == SelectSeq(seq, LAMBDA y : y # x)
Increasing(seq) == \A j, k \in 1..Len(seq) : j < k => seq[j] < seq[k]
\* A publish call returned in the last step.
Returned == last.status = "returned"
\* ... and no callback called a channel operation of its channel meanwhile.
ReturnedQuiet == Returned /\ last.ev = {}

(***************************************************************************)
(* C1. After N subscribe calls (callbacks that call no channel operation), *)
(* one publish(p) invokes each of the N callbacks exactly once, in the     *)
(* order they were subscribed, each with exactly p (undefined when publish *)
(* was called without an argument).                                        *)
(***************************************************************************)
C1_PublishDeliversToAllInOrder ==
    (ReturnedQuiet /\ AllRegular(last.start)) =>
        /\ Increasing(last.start)
        /\ last.log = [k \in 1..Len(last.start) |-> <<last.start[k], last.payload>>]

C1_Witness ==
    /\ ReturnedQuiet
    /\ AllRegular(last.start)
    /\ Len(last.start) >= 2
    /\ last.payload = Undefined

(***************************************************************************)
(* C2. With any mix of regular and one-shot subscriptions (callbacks that  *)
(* call no channel operation), one publish call invokes every subscription *)
(* that was on the channel when the call began exactly once, in sequence   *)
(* order, and afterwards the sequence holds exactly the regular ones, in   *)
(* their original order.                                                   *)
(***************************************************************************)
C2_OneShotRemovalSkipsNobody ==
    ReturnedQuiet =>
        /\ LogIds(last.log) = last.start
        /\ subscribers[last.chan] = SelectSeq(last.start, LAMBDA s : ~IsOneShot(s))

(***************************************************************************)
(* C3. A callback registered with subscribeOnce is invoked at most once    *)
(* over the whole lifetime of the channel, whatever publish calls follow,  *)
(* sequential or re-entrant (also from inside the one-shot callback).      *)
(***************************************************************************)
C3_OneShotInvokedAtMostOnce ==
    \A s \in Subscriptions : IsOneShot(s) => calls[s] <= 1

(***************************************************************************)
(* C4. unsubscribe(s) on a channel whose sequence does not contain s       *)
(* leaves that sequence exactly as it was, in every reachable state.       *)
(***************************************************************************)
C4_UnsubscribeAbsentIsNoOp ==
    \A c \in Channels, s \in Subscriptions :
        IndexOf(subscribers[c], s) = -1 =>
            unsubscribe(subscribers[c], s) = subscribers[c]

(***************************************************************************)
(* C5. unsubscribe(s) on a channel whose sequence contains s removes       *)
(* exactly s, matched by identity: every other subscription (also one that *)
(* wraps the same callback function) stays, in its original relative       *)
(* order; s never returns to the sequence, and a callback is only ever     *)
(* invoked for a subscription that is in its channel's sequence, so s's    *)
(* callback is not invoked by any later publish.                           *)
(***************************************************************************)
C5_RemovesExactlyThat ==
    \A c \in Channels, s \in Subscriptions :
        s \in Range(subscribers[c]) =>
            unsubscribe(subscribers[c], s) = Without(subscribers[c], s)

C5_GoneStaysGone ==
    \A c \in Channels, s \in Subscriptions :
        s \notin Range(subscribers[c]) => s \notin Range(subscribers'[c])

C5_InvokedOnlyWhileSubscribed ==
    \A s \in Subscriptions :
        calls'[s] # calls[s] => s \in Range(subscribers[heap[s].signalName])

C5_UnsubscribeRemovesForGood ==
    /\ [](C5_RemovesExactlyThat /\ Count(subscribers["a"] \o subscribers["b"], 0) = 0)
    /\ [][C5_GoneStaysGone /\ C5_InvokedOnlyWhileSubscribed]_vars

\* A publish call returned during which a callback unsubscribed a subscription
\* that was still to be visited: it was not invoked, the others still are on
\* the channel.
C5_Witness ==
    /\ Returned
    /\ last.ev = {"unsubPending"}
    /\ \E s \in Range(last.start) :
          /\ s \notin Range(LogIds(last.log))
          /\ s \notin Range(subscribers[last.chan])
          /\ \E o \in Range(subscribers[last.chan]) :
                heap[o].signalCallback = heap[s].signalCallback

(***************************************************************************)
(* C6. When a callback unsubscribes its own subscription during a publish  *)
(* call, that call still invokes every other subscriber that was on the    *)
(* channel exactly once.                                                   *)
(***************************************************************************)
C6_SelfUnsubscribeSkipsNobody ==
    (Returned /\ last.ev = {"unsubSelf"} /\ AllRegular(last.start)) =>
        \A s \in Range(last.start) : Count(LogIds(last.log), s) = 1

(***************************************************************************)
(* C7. A subscription created from inside a callback while a publish call  *)
(* on the same channel is in progress is not invoked by that publish call: *)
(* every subscription a publish call invokes was on the channel when the   *)
(* call began.                                                             *)
(***************************************************************************)
C7_AddedDuringPublishNotInvoked ==
    \A k \in 1..Len(stack) :
        Range(LogIds(stack[k].log)) \subseteq Range(stack[k].start)

(***************************************************************************)
(* C8. When a callback unsubscribes another subscription of the channel    *)
(* during a publish call: one not yet visited is not invoked in this pass  *)
(* (and the others are); after the removal of one already visited, every   *)
(* remaining subscriber is still invoked exactly once.                     *)
(***************************************************************************)
C8_UnsubscribeOtherDuringPublish ==
    /\ (Returned /\ last.ev = {"unsubPending"} /\ AllRegular(last.start)) =>
            LogIds(last.log) = subscribers[last.chan]
    /\ (Returned /\ last.ev = {"unsubVisited"} /\ AllRegular(last.start)) =>
            \A s \in Range(last.start) : Count(LogIds(last.log), s) = 1

(***************************************************************************)
(* C9. For every name list in which some name occurs more than once,       *)
(* createSignalStation throws at the first repeated name, before a second  *)
(* channel is bound to that name, and returns no station.                  *)
(***************************************************************************)
HasDuplicate(names) ==
    \E j, k \in 1..Len(names) : j < k /\ names[j] = names[k]

\* The position of the first name that repeats an earlier one.
FirstRepeat(names) ==
    CHOOSE k \in 1..Len(names) :
        /\ \E j \in 1..(k - 1) : names[j] = names[k]
        /\ \A m \in 1..(k - 1) : \A j \in 1..(m - 1) : names[j] # names[m]

\* The loop never passes the first repeated name, no station is returned, the
\* name the error is about (signalNames[ci + 1], which its message shows) is the
\* first repeated name, and every bound key holds the Signal of the first name
\* supplied for it.
C9_DuplicateThrowsAtFirstRepeat ==
    HasDuplicate(signalNames) =>
        /\ ci < FirstRepeat(signalNames)
        /\ cstate # "returned"
        /\ station = <<>>
        /\ cstate = "threw" =>
              signalNames[ci + 1] = signalNames[FirstRepeat(signalNames)]
        /\ \A k \in 1..ci :
              LET key == ToPropertyKey(signalNames[k])
                  first == CHOOSE j \in 1..k :
                              /\ ToPropertyKey(signalNames[j]) = key
                              /\ \A m \in 1..(j - 1) : ToPropertyKey(signalNames[m]) # key
              IN signals[key].signalName = signalNames[first]

(***************************************************************************)
(* C10. For every list of pairwise distinct names createSignalStation does *)
(* not throw and returns a station with exactly one channel per supplied   *)
(* name and no others, each with an empty subscriber sequence; it throws   *)
(* only when the name was supplied earlier in the same call.               *)
(***************************************************************************)
C10_DistinctNamesSucceed ==
    /\ cstate = "threw" =>
          \E j \in 1..ci : signalNames[j] = signalNames[ci + 1]
    /\ (cstate = "returned" /\ ~HasDuplicate(signalNames)) =>
          /\ Cardinality(DOMAIN station) = Len(signalNames)
          /\ \A k \in 1..Len(signalNames) :
                /\ ToPropertyKey(signalNames[k]) \in DOMAIN station
                /\ station[ToPropertyKey(signalNames[k])] =
                      [signalName |-> signalNames[k], subscribers |-> <<>>]

(***************************************************************************)
(* C11. Channels are independent: subscribe, subscribeOnce, unsubscribe    *)
(* and publish on one channel (every step of it) never change the          *)
(* subscriber sequence of another channel and never invoke a callback      *)
(* subscribed on another channel.                                          *)
(***************************************************************************)
\* The step is (part of) an operation of channel c.
C11_OperationOn(c) ==
    \/ \E cb \in Callbacks : Subscribe(c, cb)
    \/ \E cb \in Callbacks : SubscribeOnce(c, cb)
    \/ \E s \in Subscriptions : Unsubscribe(c, s)
    \/ \E payload \in Payloads : Publish(c, payload)
    \/ IF stack = <<>> THEN FALSE
       ELSE Top.chan = c /\ (PublishNext \/ CallbackReturn \/ PublishReturn)

C11_OtherChannelsUntouched ==
    \A c \in Channels :
        C11_OperationOn(c) =>
            /\ \A d \in Channels \ {c} : subscribers'[d] = subscribers[d]
            /\ \A s \in Subscriptions :
                  calls'[s] # calls[s] => heap[s].signalName = c

C11_ChannelsIndependent == [][C11_OtherChannelsUntouched]_vars

\* publish on a returned after invoking a callback while b holds subscribers,
\* none of which was ever invoked.
C11_Witness ==
    /\ Returned
    /\ last.chan = "a"
    /\ last.log # <<>>
    /\ subscribers["b"] # <<>>
    /\ \A s \in Range(subscribers["b"]) : calls[s] = 0

(***************************************************************************)
(* C13. The automatic removal that publish performs after a one-shot       *)
(* subscriber's callback returns removes only that subscription, and       *)
(* leaves the sequence unchanged when the subscription is no longer in it  *)
(* (its callback unsubscribed it, or a re-entrant publish from the         *)
(* callback already delivered to it and removed it).                       *)
(***************************************************************************)
\* In every state in which a one-shot's callback is running (so that it may
\* return now), the removal step would take away that subscription and nothing else.
C13_AutoRemovalRemovesOnlyTheOneShot ==
    (stack # <<>> /\ Top.cur # 0 /\ IsOneShot(Top.cur)) =>
        unsubscribe(subscribers[Top.chan], Top.cur)
            = Without(subscribers[Top.chan], Top.cur)

(***************************************************************************)
(* C14. A publish call in which no callback calls publish terminates and   *)
(* invokes at most as many callbacks as there were subscriptions on the    *)
(* channel when the call began, even when callbacks subscribe new          *)
(* callbacks to the same channel during the call.                          *)
(***************************************************************************)
C14_PublishInvokesAtMostInitialCount ==
    \A k \in 1..Len(stack) :
        "publish" \notin stack[k].ev => Len(stack[k].log) <= Len(stack[k].start)

(***************************************************************************)
(* C15. If a callback throws during publish, the exception propagates out  *)
(* of publish, no later subscriber is invoked in that call, and the        *)
(* sequence is not corrupted: the throw leaves it as it was when the       *)
(* callback threw, and (callbacks calling no channel operation) it holds   *)
(* the subscriptions of the start of the call in the same order, without   *)
(* duplicates, less the one-shots whose callbacks ran to completion        *)
(* earlier in the pass; a one-shot whose own callback threw is still       *)
(* subscribed.                                                             *)
(***************************************************************************)
Threw == last.status = "threw"

\* The one-shot subscriptions whose callbacks returned before the throw.
C15_Completed == {last.log[k][1] : k \in 1..(Len(last.log) - 1)}

C15_SequenceAfterThrow ==
    (Threw /\ last.ev = {}) =>
        /\ subscribers[last.chan] =
              SelectSeq(last.start,
                        LAMBDA s : ~(IsOneShot(s) /\ s \in C15_Completed))
        /\ \A s \in Subscriptions : Count(subscribers[last.chan], s) <= 1
        /\ last.log[Len(last.log)][1] \in Range(subscribers[last.chan])

\* The throw: the call whose callback threw is left (it invokes nobody any
\* more), no array changes and no callback is invoked by the step.
C15_ThrowStep ==
    \A depth \in 0..Len(stack) :
        CallbackThrow(depth) =>
            /\ Len(stack') < Len(stack)
            /\ subscribers' = subscribers
            /\ calls' = calls

C15_ThrowPropagatesAndKeepsSequence ==
    [](C15_SequenceAfterThrow) /\ [][C15_ThrowStep]_vars

\* A one-shot's callback threw after an earlier one-shot's callback had returned.
C15_Witness ==
    /\ Threw
    /\ last.ev = {}
    /\ Len(last.log) >= 2
    /\ IsOneShot(last.log[1][1])
    /\ IsOneShot(last.log[Len(last.log)][1])
    /\ last.log[1][1] \notin Range(subscribers[last.chan])

(***************************************************************************)
(* C16. subscribe and subscribeOnce each append exactly one new            *)
(* subscription at the end of the channel's sequence and leave the         *)
(* existing entries and their order unchanged; after any sequence of       *)
(* operations the subscriptions remaining on a channel appear in the order *)
(* in which they were subscribed (identities are numbered in that order).  *)
(***************************************************************************)
C16_InSubscribeOrder == \A c \in Channels : Increasing(subscribers[c])

C16_AppendsOneAtEnd ==
    \A c \in Channels, cb \in Callbacks :
        (Subscribe(c, cb) \/ SubscribeOnce(c, cb)) =>
            /\ Len(heap') = Len(heap) + 1
            /\ subscribers'[c] = Append(subscribers[c], Len(heap'))
            /\ heap'[Len(heap')].signalCallback = cb

C16_InsertionOrderPreserved ==
    [](C16_InSubscribeOrder) /\ [][C16_AppendsOneAtEnd]_vars

\* Three subscriptions were made on one channel, a publish call was made, and
\* two of them remain.
C16_Witness ==
    /\ Len(heap) = 3
    /\ npub >= 1
    /\ \E c \in Channels :
          /\ \A s \in Subscriptions : heap[s].signalName = c
          /\ Len(subscribers[c]) = 2

(***************************************************************************)
(* C17. In every reachable state each subscription appears in the          *)
(* sequence of at most one channel, the one whose subscribe or             *)
(* subscribeOnce created it, and at most once there; no operation, also    *)
(* unsubscribe called on another channel with it, moves or copies it.      *)
(***************************************************************************)
C17_OneChannelOnce ==
    \A c \in Channels :
        /\ Range(subscribers[c]) \subseteq Subscriptions
        /\ \A s \in Range(subscribers[c]) :
              /\ heap[s].signalName = c
              /\ Count(subscribers[c], s) = 1

\* During a publish call on a channel all of whose own subscriptions were on it
\* when the call began, a callback called unsubscribe with a subscription that
\* was not on the channel, while the subscriptions of the other channel are
\* still on theirs: the unsubscribe was given a subscription of the other channel.
C17_Witness ==
    /\ stack # <<>>
    /\ Top.ev = {"unsubAbsent"}
    /\ \A s \in Subscriptions :
          /\ ~IsOneShot(s)
          /\ heap[s].signalName = Top.chan => s \in Range(Top.start)
          /\ heap[s].signalName # Top.chan => s \in Range(subscribers[heap[s].signalName])
    /\ \E s \in Subscriptions : heap[s].signalName # Top.chan
====
